---- MODULE Spec2Model ----
(***************************************************************************)
(* A model of the asset manifest generator of dev-kit                      *)
(* (src/src/commands/assets.ts): the name normalizer, the identifier       *)
(* allocator, the directory walker, the rename engine, the duplicate       *)
(* detector, the tree builder and the code emitter, and one run of         *)
(* generateImageIndex as a sequence of phases over a POSIX, case-sensitive *)
(* file system.  File names are TLA+ strings and a generated text is the   *)
(* sequence of its lines; the regular-expression replacements of the       *)
(* source are recursive operators over the characters of a string.         *)
(***************************************************************************)
EXTENDS Naturals, Sequences, FiniteSets, TLC

--------------------------------------------------------------------------
(* Characters and strings                                                  *)

Ch(s, i) == SubSeq(s, i, i)

CharsOf(s) == {Ch(s, i) : i \in 1..Len(s)}

LowerChars == "abcdefghijklmnopqrstuvwxyz"

UpperChars == "ABCDEFGHIJKLMNOPQRSTUVWXYZ"

DigitChars == "0123456789"

LowerSet == CharsOf(LowerChars)

UpperSet == CharsOf(UpperChars)

DigitSet == CharsOf(DigitChars)

\* \s of the regular expressions, restricted to the characters of the model
SpaceSet == {" "}

IndexIn(c, s) == CHOOSE i \in 1..Len(s) : Ch(s, i) = c

LowerOf == [c \in UpperSet |-> Ch(LowerChars, IndexIn(c, UpperChars))]

UpperOf == [c \in LowerSet |-> Ch(UpperChars, IndexIn(c, LowerChars))]

\* String.prototype.toLowerCase on one character (ASCII)
toLowerCh(c) == IF c \in UpperSet THEN LowerOf[c] ELSE c

\* String.prototype.toUpperCase on one character (ASCII)
toUpperCh(c) == IF c \in LowerSet THEN UpperOf[c] ELSE c

RECURSIVE toLowerCase(_)
toLowerCase(s) ==
  IF s = "" THEN "" ELSE toLowerCh(Head(s)) \o toLowerCase(Tail(s))

Last(s) == Ch(s, Len(s))

Front(s) == SubSeq(s, 1, Len(s) - 1)

\* s.replace(/[^set]/g, "")
RECURSIVE Keep(_, _)
Keep(s, set) ==
  IF s = "" THEN ""
  ELSE (IF Head(s) \in set THEN Head(s) ELSE "") \o Keep(Tail(s), set)

\* s.replace(/[^set]/g, rep)
RECURSIVE ReplaceEach(_, _, _)
ReplaceEach(s, set, rep) ==
  IF s = "" THEN ""
  ELSE (IF Head(s) \in set THEN Head(s) ELSE rep) \o ReplaceEach(Tail(s), set, rep)

RECURSIVE DropWhile(_, _)
DropWhile(s, set) ==
  IF s # "" /\ Head(s) \in set THEN DropWhile(Tail(s), set) ELSE s

\* s.replace(/[set]+/g, rep)
RECURSIVE ReplaceRuns(_, _, _)
ReplaceRuns(s, set, rep) ==
  IF s = "" THEN ""
  ELSE IF Head(s) \in set THEN rep \o ReplaceRuns(DropWhile(s, set), set, rep)
  ELSE Head(s) \o ReplaceRuns(Tail(s), set, rep)

\* s.replace(/([a-z])([A-Z])/g, "$1" + sep + "$2")
RECURSIVE SplitCaseBoundary(_, _)
SplitCaseBoundary(s, sep) ==
  IF Len(s) < 2 THEN s
  ELSE IF Head(s) \in LowerSet /\ Ch(s, 2) \in UpperSet
       THEN Head(s) \o sep \o SplitCaseBoundary(Tail(s), sep)
       ELSE Head(s) \o SplitCaseBoundary(Tail(s), sep)

\* s.replace(/^c|c$/g, "")
TrimEnd(s, c) == IF s # "" /\ Last(s) = c THEN Front(s) ELSE s

TrimOne(s, c) == TrimEnd(IF s # "" /\ Head(s) = c THEN Tail(s) ELSE s, c)

--------------------------------------------------------------------------
(* Name Normalizer                                                         *)

\* s.replace(/[_\s\-\.]+(.)?/g, (_, c) => (c ? c.toUpperCase() : ""))
RECURSIVE CamelJoin(_)
CamelJoin(s) ==
  IF s = "" THEN ""
  ELSE IF Head(s) \in ({"_", "-", "."} \cup SpaceSet)
       THEN LET rest == DropWhile(s, {"_", "-", "."} \cup SpaceSet)
            IN  IF rest = "" THEN ""
                ELSE toUpperCh(Head(rest)) \o CamelJoin(Tail(rest))
       ELSE Head(s) \o CamelJoin(Tail(s))

\* s.replace(/^[A-Z]/, (m) => m.toLowerCase())
lowerFirst(s) ==
  IF s # "" /\ Head(s) \in UpperSet THEN toLowerCh(Head(s)) \o Tail(s) ELSE s

toCamel(str) == Keep(lowerFirst(CamelJoin(str)), LowerSet \cup UpperSet \cup DigitSet)

toKebabCase(str) ==
  LET a == SplitCaseBoundary(str, "-")
      b == ReplaceRuns(a, SpaceSet \cup {"_", "."}, "-")
      c == toLowerCase(b)
      d == Keep(c, LowerSet \cup DigitSet \cup {"-"})
      e == ReplaceRuns(d, {"-"}, "-")
  IN  TrimOne(e, "-")

toSnakeCase(str) ==
  LET a == SplitCaseBoundary(str, "_")
      b == ReplaceRuns(a, SpaceSet \cup {"-", "."}, "_")
      c == toLowerCase(b)
      d == Keep(c, LowerSet \cup DigitSet \cup {"_"})
      e == ReplaceRuns(d, {"_"}, "_")
  IN  TrimOne(e, "_")

--------------------------------------------------------------------------
(* node:path (posix) on root-relative paths                                *)

RECURSIVE LastIndexUpTo(_, _, _)
LastIndexUpTo(s, c, i) ==
  IF i = 0 THEN 0 ELSE IF Ch(s, i) = c THEN i ELSE LastIndexUpTo(s, c, i - 1)

\* the index of the last occurrence of c in s, 0 when there is none
LastIndexOf(s, c) == LastIndexUpTo(s, c, Len(s))

\* path.basename(p)
basename(p) == SubSeq(p, LastIndexOf(p, "/") + 1, Len(p))

dirAt(p, i) == IF i = 0 THEN "." ELSE SubSeq(p, 1, i - 1)

\* path.dirname(p) of a relative path: "." when p has no directory part
dirname(p) == dirAt(p, LastIndexOf(p, "/"))

extAt(b, d) == IF d = 0 \/ d = 1 \/ b = ".." THEN "" ELSE SubSeq(b, d, Len(b))

extOf(b) == extAt(b, LastIndexOf(b, "."))

\* path.extname(p): from the last "." of the base name to its end; empty when
\* there is no ".", when the only "." is the first character, or for ".."
extname(p) == extOf(basename(p))

stripExt(b, ext) ==
  IF ext # "" /\ ext # b /\ Len(b) >= Len(ext)
     /\ SubSeq(b, Len(b) - Len(ext) + 1, Len(b)) = ext
  THEN SubSeq(b, 1, Len(b) - Len(ext))
  ELSE b

\* path.basename(p, ext)
basenameNoExt(p, ext) == stripExt(basename(p), ext)

\* path.join(dir, name) for dir = path.dirname(p)
join(dir, name) == IF dir = "." THEN name ELSE dir \o "/" \o name

\* a conversion that also lower-cases the extension
convertWithLowerExt(fileName, nameCase, ext, nameWithoutExt) ==
  IF nameCase = "kebab-case" THEN toKebabCase(nameWithoutExt) \o toLowerCase(ext)
  ELSE IF nameCase = "snake_case" THEN toSnakeCase(nameWithoutExt) \o toLowerCase(ext)
  ELSE fileName

\* lines 57-63, with ext and nameWithoutExt of lines 54-55
convertWith(fileName, nameCase, ext, nameWithoutExt) ==
  IF nameCase = "kebab-case" THEN toKebabCase(nameWithoutExt) \o ext
  ELSE IF nameCase = "snake_case" THEN toSnakeCase(nameWithoutExt) \o ext
  ELSE fileName

withExt(fileName, nameCase, ext) ==
  convertWith(fileName, nameCase, ext, basenameNoExt(fileName, ext))

convertImageName(fileName, nameCase) ==
  IF nameCase = "any" THEN fileName ELSE withExt(fileName, nameCase, extname(fileName))

--------------------------------------------------------------------------
(* Identifier Allocator                                                    *)

prefixed(cleaned) ==
  IF cleaned # "" /\ Head(cleaned) \in (LowerSet \cup UpperSet \cup {"_"})
  THEN cleaned
  ELSE "_" \o cleaned

toValidIdentifier(str) ==
  prefixed(ReplaceEach(str, LowerSet \cup UpperSet \cup DigitSet \cup {"_"}, "_"))

\* Number.prototype.toString: the decimal digits of i
RECURSIVE numToString(_)
numToString(i) ==
  IF i < 10 THEN Ch(DigitChars, i + 1)
  ELSE numToString(i \div 10) \o Ch(DigitChars, (i % 10) + 1)

\* the value of n when the loop `while (used.has(n)) n = name + i++` ends,
\* entered with counter i
RECURSIVE firstFree(_, _, _, _)
firstFree(name, n, i, used) ==
  IF n \in used THEN firstFree(name, name \o numToString(i), i + 1, used) ELSE n

\* an allocator that returns n without recording it
takenForgotten(n, used) == [name |-> n, used |-> used]

\* lines 75-76: used.add(n); return n
taken(n, used) == [name |-> n, used |-> used \cup {n}]

\* ensureUnique returns n and adds it to used: [name |-> n, used |-> used']
ensureUnique(name, used) == taken(firstFree(name, name, 2, used), used)

--------------------------------------------------------------------------
(* String order of Array.prototype.sort (UTF-16 code units)                *)

\* the characters of the model in ascending order of their code
CodeOrder ==
  "\n \",-./0123456789:;=ABCDEFGHIJKLMNOPQRSTUVWXYZ_abcdefghijklmnopqrstuvwxyz{}"

CodeOf == [c \in CharsOf(CodeOrder) |-> IndexIn(c, CodeOrder)]

\* the rank of the code unit of a character
Code(c) == CodeOf[c]

\* a < b, given that a and b agree before position i
RECURSIVE LessFrom(_, _, _)
LessFrom(a, b, i) ==
  IF i > Len(b) THEN FALSE
  ELSE IF i > Len(a) THEN TRUE
  ELSE IF Ch(a, i) = Ch(b, i) THEN LessFrom(a, b, i + 1)
  ELSE Code(Ch(a, i)) < Code(Ch(b, i))

StrLess(a, b) == LessFrom(a, b, 1)

RECURSIVE InsertSorted(_, _)
InsertSorted(sorted, s) ==
  IF sorted = <<>> THEN <<s>>
  ELSE IF StrLess(s, Head(sorted)) THEN <<s>> \o sorted
  ELSE <<Head(sorted)>> \o InsertSorted(Tail(sorted), s)

\* arr.sort() with the default comparator, on a sequence of strings
RECURSIVE sort(_)
sort(arr) ==
  IF arr = <<>> THEN <<>>
  ELSE InsertSorted(sort(SubSeq(arr, 1, Len(arr) - 1)), arr[Len(arr)])

\* a < b for two texts given as their lines, which agree before line i: the
\* order of the joined strings, "\n" having the lowest code of the model
RECURSIVE TextLessFrom(_, _, _)
TextLessFrom(a, b, i) ==
  IF i > Len(b) THEN FALSE
  ELSE IF i > Len(a) THEN TRUE
  ELSE IF a[i] = b[i] THEN TextLessFrom(a, b, i + 1)
  ELSE StrLess(a[i], b[i])

RECURSIVE InsertSortedText(_, _)
InsertSortedText(sorted, t) ==
  IF sorted = <<>> THEN <<t>>
  ELSE IF TextLessFrom(t, Head(sorted), 1) THEN <<t>> \o sorted
  ELSE <<Head(sorted)>> \o InsertSortedText(Tail(sorted), t)

\* arr.sort() with the default comparator, on a sequence of texts
RECURSIVE sortTexts(_)
sortTexts(arr) ==
  IF arr = <<>> THEN <<>>
  ELSE InsertSortedText(sortTexts(SubSeq(arr, 1, Len(arr) - 1)), arr[Len(arr)])

\* arr.join(sep)
RECURSIVE joinLines(_, _)
joinLines(arr, sep) ==
  IF arr = <<>> THEN ""
  ELSE IF Len(arr) = 1 THEN arr[1]
  ELSE arr[1] \o sep \o joinLines(Tail(arr), sep)

--------------------------------------------------------------------------
(* Tree Builder: a JavaScript object is the sequence of its own            *)
(* properties [k, v] in insertion order; v is a leaf string or an object   *)

Leaf(str) == [leaf |-> TRUE, s |-> str, kids |-> <<>>]

Obj(props) == [leaf |-> FALSE, s |-> "", kids |-> props]

HasKey(props, k) == \E i \in 1..Len(props) : props[i].k = k

Get(props, k) == props[CHOOSE i \in 1..Len(props) : props[i].k = k].v

\* obj[k] = v: an existing property keeps its position
Put(props, k, v) ==
  IF HasKey(props, k)
  THEN [i \in 1..Len(props) |-> IF props[i].k = k THEN [k |-> k, v |-> v] ELSE props[i]]
  ELSE Append(props, [k |-> k, v |-> v])

\* node[part], or the {} line 100 stores when node[part] is missing
childOf(props, part) == IF HasKey(props, part) THEN Get(props, part) ELSE Obj(<<>>)

putChild(props, part, r) == [ok |-> r.ok, props |-> Put(props, part, Obj(r.props))]

RECURSIVE setInTree(_, _, _)

\* lines 99-101 for pathParts[1] = part, then the rest of the path below child
descend(props, pathParts, leafValue, part, child) ==
  IF child.leaf
  THEN [ok |-> FALSE, props |-> props]
  ELSE putChild(props, part, setInTree(child.kids, Tail(pathParts), leafValue))

\* setInTree: [ok |-> TRUE, props |-> the object after the call], or
\* [ok |-> FALSE] when the walk reaches a leaf string where an object is
\* needed: in strict mode the property assignment on a string throws TypeError
setInTree(props, pathParts, leafValue) ==
  IF Len(pathParts) = 1
  THEN [ok |-> TRUE, props |-> Put(props, pathParts[1], Leaf(leafValue))]
  ELSE descend(props, pathParts, leafValue, pathParts[1], childOf(props, pathParts[1]))

\* a canonical array index ("0", "7", "10"): such property keys enumerate first
IsArrayIndex(k) ==
  /\ k # ""
  /\ CharsOf(k) \subseteq DigitSet
  /\ (Len(k) > 1 => Head(k) # "0")

RECURSIVE parseNat(_)
parseNat(k) ==
  IF k = "" THEN 0 ELSE parseNat(Front(k)) * 10 + (IndexIn(Last(k), DigitChars) - 1)

RECURSIVE SortByNumber(_)
SortByNumber(S) ==
  IF S = {} THEN <<>>
  ELSE <<CHOOSE a \in S : \A b \in S : parseNat(a) <= parseNat(b)>>
         \o SortByNumber(S \ {CHOOSE a \in S : \A b \in S : parseNat(a) <= parseNat(b)})

\* Object.keys(obj): array indices in ascending numeric order, then the
\* other keys in insertion order
ObjectKeys(props) ==
  SortByNumber({props[i].k : i \in {j \in 1..Len(props) : IsArrayIndex(props[j].k)}})
    \o SelectSeq([i \in 1..Len(props) |-> props[i].k], LAMBDA k : ~IsArrayIndex(k))

RECURSIVE sortObjectKeysDeep(_)

\* lines 108-111: sorted[key] = sortObjectKeysDeep(obj[key]) for the keys in order
RECURSIVE fillSorted(_, _)
fillSorted(kids, keys) ==
  IF keys = <<>> THEN <<>>
  ELSE Put(fillSorted(kids, SubSeq(keys, 1, Len(keys) - 1)), keys[Len(keys)],
           sortObjectKeysDeep(Get(kids, keys[Len(keys)])))

sortObjectKeysDeep(v) ==
  IF v.leaf THEN v ELSE Obj(fillSorted(v.kids, sort(ObjectKeys(v.kids))))

--------------------------------------------------------------------------
(* Code Emitter                                                            *)

\* JSON.stringify of a string without quotes, backslashes or control characters
JSONstringify(str) == "\"" \o str \o "\""

\* /^[a-zA-Z_][a-zA-Z0-9_]*$/.test(k)
IsIdentifier(k) ==
  /\ k # ""
  /\ Head(k) \in (LowerSet \cup UpperSet \cup {"_"})
  /\ CharsOf(k) \subseteq (LowerSet \cup UpperSet \cup DigitSet \cup {"_"})

RECURSIVE repeat(_, _)
repeat(str, n) == IF n = 0 THEN "" ELSE str \o repeat(str, n - 1)

\* A text is kept as the sequence of its lines: the text is the lines joined
\* by "\n", so "a\nb" is <<"a", "b">> and a text ending in "\n" ends in "".
\* cat(a, b) is the text a + b
cat(a, b) == SubSeq(a, 1, Len(a) - 1) \o <<a[Len(a)] \o b[1]>> \o Tail(b)

\* texts.join(sep)
RECURSIVE joinText(_, _)
joinText(texts, sep) ==
  IF texts = <<>> THEN <<"">>
  ELSE IF Len(texts) = 1 THEN texts[1]
  ELSE cat(cat(texts[1], sep), joinText(Tail(texts), sep))

RECURSIVE objectToTS(_, _)

\* lines 121-122 for one entry [k, v]
entryToTS(k, v, indent) ==
  cat(<<repeat("  ", indent + 1)
          \o (IF IsIdentifier(k) THEN k ELSE JSONstringify(k)) \o ": ">>,
      objectToTS(v, indent + 1))

\* lines 120-123 over Object.entries(obj)
entriesToTS(kids, keys, indent) ==
  [i \in 1..Len(keys) |-> entryToTS(keys[i], Get(kids, keys[i]), indent)]

\* `{\n${entries.join(",\n")}\n${pad}}`, or the leaf string
objectToTS(v, indent) ==
  IF v.leaf THEN <<v.s>>
  ELSE cat(cat(<<"{", "">>,
               joinText(entriesToTS(v.kids, ObjectKeys(v.kids), indent), <<",", "">>)),
           <<"", repeat("  ", indent) \o "}">>)

RECURSIVE split(_, _)

splitAt(str, sep, i) ==
  IF i = 0 THEN <<str>>
  ELSE Append(split(SubSeq(str, 1, i - 1), sep), SubSeq(str, i + 1, Len(str)))

\* str.split(sep) for a one-character separator
split(str, sep) == splitAt(str, sep, LastIndexOf(str, sep))

StartsWith(str, pat) == Len(str) >= Len(pat) /\ SubSeq(str, 1, Len(pat)) = pat

\* str.replace(pat, rep) with a string pattern: the first occurrence only
RECURSIVE replaceFirst(_, _, _)
replaceFirst(str, pat, rep) ==
  IF StartsWith(str, pat) THEN rep \o SubSeq(str, Len(pat) + 1, Len(str))
  ELSE IF str = "" THEN ""
  ELSE Head(str) \o replaceFirst(Tail(str), pat, rep)

--------------------------------------------------------------------------
(* File system: a root is a set of files [p |-> root-relative path,        *)
(* id |-> content]; paths are unique within a root                         *)

IMAGE_EXTS == {".png", ".jpg", ".jpeg", ".webp", ".gif", ".bmp", ".svg", ".avif"}

existsSync(files, p) == \E f \in files : f.p = p

FileAt(files, p) == CHOOSE f \in files : f.p = p

\* a rename that leaves the directory as it was
renameUndone(files, from, to) == files

\* fs.rename on POSIX: an existing destination file is replaced
rename(files, from, to) ==
  {f \in files : f.p # from /\ f.p # to} \cup {[p |-> to, id |-> FileAt(files, from).id]}

\* a filter that compares the extension as it is written
isImageNameExact(name) ==
  /\ extOf(name) \in IMAGE_EXTS
  /\ name # "index.ts"

\* the files walk() keeps: lines 87-90
isImageName(name) ==
  /\ toLowerCase(extOf(name)) \in IMAGE_EXTS
  /\ name # "index.ts"

IsAsset(p) == isImageName(basename(p))

Perms(S) ==
  {l \in [1..Cardinality(S) -> S] : \A i, j \in 1..Cardinality(S) : l[i] = l[j] => i = j}

\* walk(dir): the eligible files in the order of readdir, which is not
\* specified; the files of one subdirectory are listed together
\* the entries of a subdirectory are listed together: line 85
together(dirs) ==
  \A i, j, k \in 1..Len(dirs) :
    (i < j /\ j < k /\ dirs[i] = dirs[k] /\ dirs[i] # ".") => dirs[j] = dirs[i]

walk(files) ==
  {l \in Perms({f.p : f \in {g \in files : IsAsset(g.p)}}) :
     together([i \in 1..Len(l) |-> dirname(l[i])])}

\* the files of the primary root as readdir returns them: index.ts, the
\* output file of line 379, lies in that root once it has been written
dirEntries(files, index) ==
  files \cup (IF index.exists THEN {[p |-> "index.ts", id |-> 0]} ELSE {})

--------------------------------------------------------------------------
(* Rename Engine: one iteration of the loop of renameImagesInDirectory     *)

\* the guard of the throw at lines 151-158
collides(files, fileName, convertedName, newPath) ==
  /\ existsSync(files, newPath)
  /\ toLowerCase(fileName) # toLowerCase(convertedName)

\* lines 147-173 for a file whose converted name differs: [kind, files, to]
renameTo(files, filePath, fileName, convertedName, newPath, tempPath) ==
  IF collides(files, fileName, convertedName, newPath)
  THEN [kind |-> "collision", files |-> files, to |-> newPath]
  ELSE IF ~existsSync(files, filePath)
  THEN [kind |-> "enoent", files |-> files, to |-> newPath]
  ELSE IF toLowerCase(fileName) = toLowerCase(convertedName)
  THEN [kind |-> "renamed", to |-> newPath,
        files |-> rename(rename(files, filePath, tempPath), tempPath, newPath)]
  ELSE [kind |-> "renamed", to |-> newPath, files |-> rename(files, filePath, newPath)]

\* lines 146-174 with fileName and convertedName of lines 143-144
renameConverted(files, filePath, fileName, convertedName) ==
  IF fileName = convertedName
  THEN [kind |-> "skip", files |-> files, to |-> filePath]
  ELSE renameTo(files, filePath, fileName, convertedName,
                join(dirname(filePath), convertedName),
                join(dirname(filePath), fileName \o ".tmp"))

renameNamed(files, filePath, fileName, nameCase) ==
  renameConverted(files, filePath, fileName, convertImageName(fileName, nameCase))

\* lines 143-174 for one filePath of allFiles
renameOne(files, filePath, nameCase) ==
  renameNamed(files, filePath, basename(filePath), nameCase)

\* the second rename of lines 167-168 is rejected: the file stays at tempPath
strandedAt(files, filePath, tempPath, newPath) ==
  {[kind |-> "rejected", to |-> newPath, files |-> rename(files, filePath, tempPath)]}

\* the outcomes of lines 160-171 in which fs.rename is rejected by the file
\* system (EACCES, EBUSY, ENOSPC, ...), for a file whose renames r performs
\* when they all resolve: the first or only rename is rejected and the file
\* stays at filePath, or, for a change of letter case only, the second one is
\* rejected and the file stays at tempPath
rejections(r, files, filePath, fileName) ==
  IF r.kind # "renamed" THEN {}
  ELSE {[kind |-> "rejected", to |-> r.to, files |-> files]}
         \cup (IF toLowerCase(fileName) = toLowerCase(basename(r.to))
               THEN strandedAt(files, filePath, join(dirname(filePath), fileName \o ".tmp"),
                               r.to)
               ELSE {})

--------------------------------------------------------------------------
(* Duplicate Detector: lines 256-276                                       *)

addUnique(set, x) == IF \E i \in 1..Len(set) : set[i] = x THEN set ELSE Append(set, x)

\* new Set(arr), in insertion order
RECURSIVE dedupe(_)
dedupe(arr) ==
  IF arr = <<>> THEN <<>>
  ELSE addUnique(dedupe(SubSeq(arr, 1, Len(arr) - 1)), arr[Len(arr)])

\* a detector that reports nothing
findNoDuplicates(baseList, publicList) == <<>>

findDuplicates(baseList, publicList) ==
  SelectSeq(dedupe(baseList), LAMBDA name : \E i \in 1..Len(publicList) : publicList[i] = name)

--------------------------------------------------------------------------
(* Processing of the listings: lines 289-375                               *)

\* the result of sizeOf for the content of a file: width and height are
\* optional numbers (number | undefined), <<>> standing for undefined
Dimensions(id) ==
  [width |-> IF id % 5 = 0 THEN <<>> ELSE <<64 * (1 + (id % 2))>>, height |-> <<64>>]

\* d || 0, for an optional number d
orZero(d) == IF d = <<>> THEN 0 ELSE d[1]

\* generators.assets.publicDir and generators.assets.image.baseDir
publicDir == "public"

imageBaseDir == "images"

partsOfDir(dir) == IF dir = "." THEN <<>> ELSE split(dir, "/")

dirPartsOf(relFromImages) == partsOfDir(dirname(relFromImages))

baseNoExtOf(relFromImages) == basenameNoExt(relFromImages, extname(relFromImages))

keysOf(dirParts, fileKey) ==
  [i \in 1..Len(dirParts) |-> toCamel(dirParts[i])]
    \o <<IF fileKey = "" THEN "image" ELSE fileKey>>

\* [...dirKeys, fileKey || "image"]
keysPathOf(relFromImages) ==
  keysOf(dirPartsOf(relFromImages), toCamel(baseNoExtOf(relFromImages)))

camelParts(parts) ==
  SelectSeq([i \in 1..Len(parts) |-> toCamel(parts[i])], LAMBDA c : c # "")

varBaseFrom(joined, relFromImages) ==
  toValidIdentifier(IF joined = "" THEN toCamel(baseNoExtOf(relFromImages)) ELSE joined)

\* lines 322-325 and 358-361
varBaseOf(relFromImages) ==
  varBaseFrom(joinLines(camelParts(Append(dirPartsOf(relFromImages),
                                          baseNoExtOf(relFromImages))), "_"),
              relFromImages)

orImg(varBase) == IF varBase = "" THEN "img" ELSE varBase

\* the name handed to ensureUnique: varBase || "img"
candidateOf(relFromImages) == orImg(varBaseOf(relFromImages))

\* lines 364-368, as the lines of the template
recordText(src, dimensions) ==
  <<"{",
    "  src: " \o JSONstringify(src) \o ",",
    "  width: " \o numToString(orZero(dimensions.width)) \o ",",
    "  height: " \o numToString(orZero(dimensions.height)) \o ",",
    "}">>

lastOf(arr) == arr[Len(arr)]

\* lines 352-368
staticImageDataOf(relFromImages, id) ==
  recordText(replaceFirst("/" \o lastOf(split(publicDir, "/")) \o "/" \o imageBaseDir
                            \o "/" \o relFromImages, "/public", ""),
             Dimensions(id))

EmptyAcc == [ok |-> TRUE, used |-> {}, imports |-> <<>>, tree |-> <<>>, decls |-> <<>>]

\* the state of the loops after a binding: usedVarNames, imports and tree
bound(acc, u, t, line, decl) ==
  [ok |-> t.ok, used |-> u.used, tree |-> t.props,
   imports |-> Append(acc.imports, line), decls |-> Append(acc.decls, decl)]

\* lines 328-330 and 370-373, for the varName u.name ensureUnique returned
bindAs(acc, u, keysPath, line, root, rel) ==
  bound(acc, u, setInTree(acc.tree, keysPath, u.name), line,
        [var |-> u.name, path |-> rel, root |-> root, keys |-> keysPath])

\* line 328: an element of imports, as a text
importLine(u, rel) == <<"import " \o u.name \o " from " \o JSONstringify("./" \o rel) \o ";">>

\* line 370
constLine(u, rel, id) ==
  cat(cat(<<"const " \o u.name \o ": StaticImageData = ">>, staticImageDataOf(rel, id)),
      <<";">>)

bindImport(acc, u, rel) == bindAs(acc, u, keysPathOf(rel), importLine(u, rel), "base", rel)

bindStatic(acc, u, rel, id) ==
  bindAs(acc, u, keysPathOf(rel), constLine(u, rel, id), "public", rel)

requireLeaf(acc, t) == [acc EXCEPT !.ok = t.ok, !.tree = t.props]

\* one iteration of the loop over baseFiles: lines 298-332
processBase(acc, rel, projectType) ==
  IF ~acc.ok THEN acc
  ELSE IF projectType = "react-native-cli"
  THEN requireLeaf(acc, setInTree(acc.tree, keysPathOf(rel),
                                  "require(" \o JSONstringify("./" \o rel) \o ")"))
  ELSE bindImport(acc, ensureUnique(candidateOf(rel), acc.used), rel)

\* one iteration of the loop over publicFiles: lines 335-374; fs.readFile
\* throws when the file is missing
processPublic(acc, rel, files) ==
  IF ~acc.ok THEN acc
  ELSE IF ~existsSync(files, rel) THEN [acc EXCEPT !.ok = FALSE]
  ELSE bindStatic(acc, ensureUnique(candidateOf(rel), acc.used), rel, FileAt(files, rel).id)

RECURSIVE processBaseFiles(_, _, _)
processBaseFiles(acc, list, projectType) ==
  IF list = <<>> THEN acc
  ELSE processBaseFiles(processBase(acc, Head(list), projectType), Tail(list), projectType)

RECURSIVE processPublicFiles(_, _, _)
processPublicFiles(acc, list, files) ==
  IF list = <<>> THEN acc
  ELSE processPublicFiles(processPublic(acc, Head(list), files), Tail(list), files)

\* lines 334-375: the second loop runs for nextjs with a public root
thenPublic(config, acc, publicList, publicFs) ==
  IF config.projectType = "nextjs" /\ config.publicDir
  THEN processPublicFiles(acc, publicList, publicFs)
  ELSE acc

\* lines 289-375: both loops
processImages(config, baseList, publicList, publicFs) ==
  thenPublic(config, processBaseFiles(EmptyAcc, baseList, config.projectType),
             publicList, publicFs)

\* lines 387-390
Header == <<"/* AUTO-GENERATED FILE. DO NOT EDIT.", "   * Run: dk gen", "   */", "">>

\* lines 393-402
bodyOf(config, imports, typeImports, treeText) ==
  IF config.projectType = "react-native-cli"
  THEN cat(cat(<<"export const ImageAssets = ">>, treeText), <<";", "">>)
  ELSE cat(cat(joinText(typeImports \o imports, <<"", "">>),
               <<"", "", "export const ImageAssets = ">>),
           cat(treeText, <<" as const;", "">>))

\* the type import pushed for every nextjs project, listed files or not
typeImportsAlways(config, publicList) ==
  IF config.projectType = "nextjs"
  THEN <<<<"import type { StaticImageData } from \"next/image\";">>>>
  ELSE <<>>

\* lines 294-296
typeImportsOf(config, publicList) ==
  IF config.projectType = "nextjs" /\ Len(publicList) > 0
  THEN <<<<"import type { StaticImageData } from \"next/image\";">>>>
  ELSE <<>>

\* lines 377-404: header + body, the text handed to fs.writeFile
renderIndex(config, acc, publicList) ==
  cat(Header, bodyOf(config, sortTexts(acc.imports), typeImportsOf(config, publicList),
                     objectToTS(sortObjectKeysDeep(Obj(acc.tree)), 0)))

--------------------------------------------------------------------------
(* Bounds and inputs                                                       *)

MaxBaseFiles == 2

MaxPubFiles == 1

MaxRuns == 2

MaxNameLen == 4

\* the files a primary root is drawn from
BaseUniverse ==
  <<"My Photo.PNG", "icon.png", "Icon.png", "ICON.png", "logo.png", "logo.jpg",
    "logo/icon.png", "My Logo.png", "my-logo.png", "___.png", "notes.txt">>

\* the files a secondary (public) root is drawn from
PubUniverse == <<"logo.png", "my-logo.png", "logo2.png", "logo/icon.png">>

BaseFilesOf(I) == {[p |-> BaseUniverse[i], id |-> i] : i \in I}

PubFilesOf(I) == {[p |-> PubUniverse[i], id |-> Len(BaseUniverse) + i] : i \in I}

\* the configurations: projectType, generators.assets.image.nameCase, whether
\* generators.assets.publicDir is set, and which of the two roots exist.
\* publicDir is read for nextjs only (a nextjs project without it runs as
\* vite-react does), so it is set exactly for nextjs
Configs ==
  {c \in [projectType : {"vite-react", "react-native-cli", "nextjs"},
          nameCase : {"kebab-case", "snake_case", "any"},
          publicDir : BOOLEAN, baseExists : BOOLEAN, pubExists : BOOLEAN] :
     /\ c.publicDir = (c.projectType = "nextjs")
     /\ c.pubExists => c.publicDir}

\* the characters file names of the normalizer runs are made of
NameChars == {"a", "B", "1", "-", "_", " ", "."}

RECURSIVE NamesUpTo(_)
NamesUpTo(n) ==
  IF n = 0 THEN {""}
  ELSE NamesUpTo(n - 1) \cup {s \o c : s \in NamesUpTo(n - 1), c \in NameChars}

NoFile == [exists |-> FALSE, text |-> <<"">>, formatted |-> FALSE]

\* an index.ts left by an earlier generation
StaleIndex == [exists |-> TRUE, text |-> <<"/* earlier index */", "">>, formatted |-> TRUE]

--------------------------------------------------------------------------
(* State                                                                   *)

VARIABLES
  cfg,          \* the configuration read by readConfig
  base,         \* the files of the primary root
  pub,          \* the files of the secondary root
  out,          \* <baseDir>/index.ts
  pc,           \* the position of the run in generateImageIndex
  run,          \* the number of the current run
  todo,         \* allFiles not yet visited by the loop of renameImagesInDirectory
  renameMap,    \* the entries of the renameMap of the current renameImagesInDirectory call
  renamed,      \* the renames completed in this run
  publicFiles,  \* line 228 / 240
  baseFiles,    \* line 254
  errKind,      \* why the run failed
  exited,       \* process.exit was called: the host process is gone
  reported,     \* the duplicates reported at lines 280-283
  acc,          \* usedVarNames, imports and tree after the loops of lines 298-375
  written,      \* the text handed to fs.writeFile in this run
  start,        \* base, pub and out when the run began
  prev,         \* written and acc of the previous run
  nFile, nCase, nOnce, nTwice, npc,  \* a normalizer run: input, convention, results
  wsDir,        \* the directory of workspaces.config.json exists
  wsConfig,     \* the content of workspaces.config.json: <<>> when there is no file
  wsStart,      \* wsConfig when workspaceInit began
  ipc,          \* the position of workspaceInit
  wsReported,   \* the messages workspaceInit has shown, in order
  modules,      \* the modules handed to processModules
  mi, ai,       \* the module and the action the loops of processModules are at
  mpc,          \* the position of processModules
  children,     \* the child processes started by execAsync that have not exited
  events        \* what executeAction did, in order

runVars == <<cfg, base, pub, out, pc, run, todo, renameMap, renamed, publicFiles,
             baseFiles, errKind, exited, reported, acc, written, start, prev>>

nameVars == <<nFile, nCase, nOnce, nTwice, npc>>

initVars == <<wsDir, wsConfig, wsStart, ipc, wsReported>>

modVars == <<modules, mi, ai, mpc, children, events>>

wsVars == <<initVars, modVars>>

vars == <<runVars, nameVars, wsVars>>

NotWritten == [done |-> FALSE, text |-> <<"">>]

NoPrev == [ran |-> FALSE, ok |-> FALSE, written |-> NotWritten, acc |-> EmptyAcc]

IdleNames ==
  /\ nFile = "" /\ nCase = "any" /\ nOnce = "" /\ nTwice = "" /\ npc = "off"

IdleInit ==
  /\ wsDir = FALSE /\ wsConfig = <<>> /\ wsStart = <<>> /\ ipc = "off" /\ wsReported = <<>>

IdleModules ==
  /\ modules = <<>> /\ mi = 1 /\ ai = 1 /\ mpc = "off" /\ children = {} /\ events = <<>>

IdleWs == IdleInit /\ IdleModules

InitRun ==
  /\ cfg \in Configs
  /\ \E I \in SUBSET (1..Len(BaseUniverse)) :
       /\ Cardinality(I) <= MaxBaseFiles
       /\ cfg.baseExists \/ I = {}
       /\ base = BaseFilesOf(I)
  /\ \E I \in SUBSET (1..Len(PubUniverse)) :
       /\ Cardinality(I) <= MaxPubFiles
       /\ cfg.pubExists \/ I = {}
       /\ pub = PubFilesOf(I)
  /\ out = IF cfg.baseExists THEN StaleIndex ELSE NoFile
  /\ pc = "idle"
  /\ run = 1
  /\ todo = <<>>
  /\ renameMap = {}
  /\ renamed = {}
  /\ publicFiles = <<>>
  /\ baseFiles = <<>>
  /\ errKind = "none"
  /\ exited = FALSE
  /\ reported = <<>>
  /\ acc = EmptyAcc
  /\ written = NotWritten
  /\ start = [base |-> base, pub |-> pub, out |-> out]
  /\ prev = NoPrev

Init == InitRun /\ IdleNames /\ IdleWs

--------------------------------------------------------------------------
(* One run of generateImageIndex                                           *)

\* a listing taken whatever the naming convention is
renameListingAlways(files) == walk(files)

\* allFiles of renameImagesInDirectory: lines 134-140
renameListing(files) == IF cfg.nameCase = "any" THEN {<<>>} ELSE walk(files)

\* process.exit(1) at lines 218, 284 and 454
Fail(kind) ==
  /\ pc' = "failed"
  /\ errKind' = kind
  /\ exited' = TRUE

\* a run that goes on to the renames without the check of lines 213-219
BeginUnchecked ==
  /\ pc = "idle"
  /\ start' = [base |-> base, pub |-> pub, out |-> out]
  /\ IF cfg.projectType = "nextjs" /\ cfg.publicDir /\ cfg.pubExists
     THEN pc' = "renamePublic" /\ todo' \in renameListing(pub) /\ UNCHANGED <<errKind, exited>>
     ELSE /\ pc' = "renameBase"
          /\ todo' \in renameListing(dirEntries(base, out))
          /\ UNCHANGED <<errKind, exited>>
  /\ UNCHANGED <<nameVars, wsVars, cfg, base, pub, out, run, renameMap, renamed, publicFiles,
                 baseFiles, reported, acc, written, prev>>

\* lines 181-245, up to the first call of renameImagesInDirectory
Begin ==
  /\ pc = "idle"
  /\ start' = [base |-> base, pub |-> pub, out |-> out]
  /\ IF ~cfg.baseExists
     THEN Fail("noroot") /\ UNCHANGED todo
     ELSE IF cfg.projectType = "nextjs" /\ cfg.publicDir /\ cfg.pubExists
     THEN pc' = "renamePublic" /\ todo' \in renameListing(pub) /\ UNCHANGED <<errKind, exited>>
     ELSE /\ pc' = "renameBase"
          /\ todo' \in renameListing(dirEntries(base, out))
          /\ UNCHANGED <<errKind, exited>>
  /\ UNCHANGED <<nameVars, wsVars, cfg, base, pub, out, run, renameMap, renamed, publicFiles,
                 baseFiles, reported, acc, written, prev>>

\* one iteration of the loop at lines 142-175, in the root being renamed
RenameStep ==
  /\ pc \in {"renamePublic", "renameBase"}
  /\ todo # <<>>
  /\ \E inPublic \in {pc = "renamePublic"} :
      \E resolved \in {renameOne(IF inPublic THEN pub ELSE base, Head(todo), cfg.nameCase)} :
       \E r \in {resolved} \cup rejections(resolved, IF inPublic THEN pub ELSE base,
                                           Head(todo), basename(Head(todo))) :
         /\ IF r.kind = "collision" THEN Fail("collision")
            ELSE IF r.kind \in {"enoent", "rejected"} THEN Fail("error")
            ELSE UNCHANGED <<pc, errKind, exited>>
         /\ todo' = IF r.kind \in {"skip", "renamed"} THEN Tail(todo) ELSE todo
         /\ pub' = IF inPublic THEN r.files ELSE pub
         /\ base' = IF inPublic THEN base ELSE r.files
         /\ renameMap' = IF r.kind = "renamed"
                         THEN renameMap \cup {[from |-> Head(todo), to |-> r.to]}
                         ELSE renameMap
         /\ renamed' = IF r.kind = "renamed"
                       THEN renamed \cup
                              {[root |-> IF inPublic THEN "public" ELSE "base",
                                from |-> Head(todo), to |-> r.to,
                                id |-> FileAt(IF inPublic THEN pub ELSE base, Head(todo)).id]}
                       ELSE renamed
  /\ UNCHANGED <<nameVars, wsVars, cfg, out, run, publicFiles, baseFiles, reported, acc,
                 written, start, prev>>

\* lines 239-245: the public root is listed, then the rename of the base root begins
ScanPublic ==
  /\ pc = "renamePublic"
  /\ todo = <<>>
  /\ publicFiles' \in walk(pub)
  /\ todo' \in renameListing(dirEntries(base, out))
  /\ renameMap' = {}
  /\ pc' = "renameBase"
  /\ UNCHANGED <<nameVars, wsVars, cfg, base, pub, out, run, renamed, baseFiles, errKind, exited,
                 reported, acc, written, start, prev>>

\* a scan that returns the listing of the primary root taken before the renames
ScanBaseStale ==
  /\ pc = "renameBase"
  /\ todo = <<>>
  /\ baseFiles' \in walk(dirEntries(start.base, start.out))
  /\ pc' = "scanned"
  /\ UNCHANGED <<nameVars, wsVars, cfg, base, pub, out, run, todo, renameMap, renamed, publicFiles,
                 errKind, exited, reported, acc, written, start, prev>>

\* lines 247-254
ScanBase ==
  /\ pc = "renameBase"
  /\ todo = <<>>
  /\ baseFiles' \in walk(dirEntries(base, out))
  /\ pc' = "scanned"
  /\ UNCHANGED <<nameVars, wsVars, cfg, base, pub, out, run, todo, renameMap, renamed, publicFiles,
                 errKind, exited, reported, acc, written, start, prev>>

\* lines 256-285
Detect ==
  /\ pc = "scanned"
  /\ \E duplicates \in {findDuplicates(baseFiles, publicFiles)} :
         IF Len(duplicates) > 0
         THEN Fail("duplicate") /\ reported' = duplicates
         ELSE pc' = "processing" /\ UNCHANGED <<errKind, exited, reported>>
  /\ UNCHANGED <<nameVars, wsVars, cfg, base, pub, out, run, todo, renameMap, renamed, publicFiles,
                 baseFiles, acc, written, start, prev>>

\* lines 287-404: the loops, the rendering and fs.writeFile
Generate ==
  /\ pc = "processing"
  /\ \E a \in {processImages(cfg, baseFiles, publicFiles, pub)} :
         /\ acc' = a
         /\ IF a.ok
            THEN /\ written' = [done |-> TRUE, text |-> renderIndex(cfg, a, publicFiles)]
                 /\ out' = [exists |-> TRUE, text |-> written'.text, formatted |-> FALSE]
                 /\ pc' = "written"
                 /\ UNCHANGED <<errKind, exited>>
            ELSE Fail("error") /\ UNCHANGED <<out, written>>
  /\ UNCHANGED <<nameVars, wsVars, cfg, base, pub, run, todo, renameMap, renamed, publicFiles,
                 baseFiles, reported, start, prev>>

\* lines 406-447: ui.formatGeneratedFile formats index.ts in place or throws
Format ==
  /\ pc = "written"
  /\ \/ pc' = "done" /\ out' = [out EXCEPT !.formatted = TRUE] /\ UNCHANGED <<errKind, exited>>
     \/ Fail("error") /\ UNCHANGED out
  /\ UNCHANGED <<nameVars, wsVars, cfg, base, pub, run, todo, renameMap, renamed, publicFiles,
                 baseFiles, reported, acc, written, start, prev>>

\* the command is invoked again, with the same configuration and no change
\* to the files in between
Rerun ==
  /\ pc \in {"done", "failed"}
  /\ run < MaxRuns
  /\ run' = run + 1
  /\ prev' = [ran |-> TRUE, ok |-> pc = "done", written |-> written, acc |-> acc]
  /\ pc' = "idle"
  /\ todo' = <<>>
  /\ renameMap' = {}
  /\ renamed' = {}
  /\ publicFiles' = <<>>
  /\ baseFiles' = <<>>
  /\ errKind' = "none"
  /\ exited' = FALSE
  /\ reported' = <<>>
  /\ acc' = EmptyAcc
  /\ written' = NotWritten
  /\ UNCHANGED <<nameVars, wsVars, cfg, base, pub, out, start>>

\* one invocation of the command
Next ==
  \/ Begin
  \/ RenameStep
  \/ ScanPublic
  \/ ScanBase
  \/ Detect
  \/ Generate
  \/ Format

Spec == Init /\ [][Next]_vars

\* consecutive invocations of the command
NextRuns ==
  \/ Begin
  \/ RenameStep
  \/ ScanPublic
  \/ ScanBase
  \/ Detect
  \/ Generate
  \/ Format
  \/ Rerun

SpecRuns == Init /\ [][NextRuns]_vars

--------------------------------------------------------------------------
(* Normalizer runs: convertImageName applied to a name, then to its result *)

IdleRun ==
  /\ cfg = [projectType |-> "vite-react", nameCase |-> "any", publicDir |-> FALSE,
            baseExists |-> FALSE, pubExists |-> FALSE]
  /\ base = {} /\ pub = {} /\ out = NoFile /\ pc = "off" /\ run = 1
  /\ todo = <<>> /\ renameMap = {} /\ renamed = {}
  /\ publicFiles = <<>> /\ baseFiles = <<>> /\ errKind = "none" /\ reported = <<>>
  /\ exited = FALSE /\ acc = EmptyAcc /\ written = NotWritten
  /\ start = [base |-> {}, pub |-> {}, out |-> NoFile] /\ prev = NoPrev

InitNames ==
  /\ IdleRun
  /\ IdleWs
  /\ nFile \in NamesUpTo(MaxNameLen)
  /\ nCase \in {"kebab-case", "snake_case", "any"}
  /\ nOnce = ""
  /\ nTwice = ""
  /\ npc = "input"

NormalizeOnce ==
  /\ npc = "input"
  /\ nOnce' = convertImageName(nFile, nCase)
  /\ npc' = "once"
  /\ UNCHANGED <<nFile, nCase, nTwice, runVars, wsVars>>

NormalizeAgain ==
  /\ npc = "once"
  /\ nTwice' = convertImageName(nOnce, nCase)
  /\ npc' = "twice"
  /\ UNCHANGED <<nFile, nCase, nOnce, runVars, wsVars>>

NextNames == NormalizeOnce \/ NormalizeAgain

SpecNames == InitNames /\ [][NextNames]_vars

--------------------------------------------------------------------------
(* The workspace configuration: workspace-config.ts                        *)

MaxWorkspaces == 2

\* actions of a module, with the field its type needs: command, scriptPath or
\* url, "" when the field is missing
OpenInVSCode == [type |-> "open-in-vscode", arg |-> ""]

GitPull == [type |-> "run-command", arg |-> "git pull"]

NoCommand == [type |-> "run-command", arg |-> ""]

StartScript == [type |-> "run-script", arg |-> "start.sh"]

NoUrl == [type |-> "open-url", arg |-> ""]

OpenFolder == [type |-> "open-folder", arg |-> ""]

Deploy == [type |-> "deploy", arg |-> ""]

\* the modules configurations are made of; isIncludeByDefault and
\* defaultActionIndex are optional values, <<>> standing for undefined
ModuleUniverse ==
  <<[name |-> "web", path |-> "/w/web", isIncludeByDefault |-> <<TRUE>>,
     defaultActionIndex |-> <<0>>, actions |-> <<OpenInVSCode, GitPull>>],
    [name |-> "api", path |-> "/w/api", isIncludeByDefault |-> <<FALSE>>,
     defaultActionIndex |-> <<0>>, actions |-> <<NoCommand, StartScript, NoUrl>>],
    [name |-> "docs", path |-> "/w/gone", isIncludeByDefault |-> <<TRUE>>,
     defaultActionIndex |-> <<0>>, actions |-> <<OpenFolder>>],
    [name |-> "tools", path |-> "/w/tools", isIncludeByDefault |-> <<>>,
     defaultActionIndex |-> <<0>>, actions |-> <<>>],
    [name |-> "old", path |-> "/w/old", isIncludeByDefault |-> <<TRUE>>,
     defaultActionIndex |-> <<1>>, actions |-> <<Deploy, OpenFolder>>]>>

\* the directories that exist
ExistingDirs == {"/w/web", "/w/api", "/w/tools", "/w/old"}

\* the workspaces configurations are made of
WorkspaceUniverse ==
  <<[name |-> "shop", modules |-> <<ModuleUniverse[1], ModuleUniverse[2]>>],
    [name |-> "", modules |-> <<ModuleUniverse[1]>>],
    [name |-> "tooling", modules |-> <<ModuleUniverse[4]>>]>>

RECURSIVE ListsUpTo(_, _)

\* the sequences of at most n elements of S
ListsUpTo(S, n) ==
  IF n = 0 THEN {<<>>}
  ELSE ListsUpTo(S, n - 1) \cup {Append(l, x) : l \in ListsUpTo(S, n - 1), x \in S}

\* the parsed contents a configuration file can have; version "" stands for a
\* missing version
WorkspaceConfigs ==
  [version : {"", "1.0.0"},
   workspaces : ListsUpTo({WorkspaceUniverse[i] : i \in 1..Len(WorkspaceUniverse)},
                          MaxWorkspaces)]

\* createDefaultConfig
createDefaultConfig == [version |-> "1.0.0", workspaces |-> <<>>]

\* workspaceConfigExists
workspaceConfigExists(file) == file # <<>>

\* initWorkspaceConfig: the directory and the file after the call
initWorkspaceConfig(dir, file) ==
  [dir |-> TRUE,
   file |-> IF ~workspaceConfigExists(file) THEN <<createDefaultConfig>> ELSE file]

\* writeWorkspaceConfig
writeWorkspaceConfig(dir, file, config) == [dir |-> TRUE, file |-> <<config>>]

\* the test of one module in validateWorkspaceConfig
moduleIsValid(module) ==
  ~(\/ module.name = ""
    \/ module.path = ""
    \/ module.isIncludeByDefault = <<>>
    \/ module.defaultActionIndex = <<>>)

\* validateWorkspaceConfig
validateWorkspaceConfig(config) ==
  /\ config.version # ""
  /\ \A i \in 1..Len(config.workspaces) :
       /\ config.workspaces[i].name # ""
       /\ \A j \in 1..Len(config.workspaces[i].modules) :
            moduleIsValid(config.workspaces[i].modules[j])

\* importWorkspaceConfig for a file that exists: content is <<>> when
\* JSON.parse throws, otherwise the parsed value
importWorkspaceConfig(content) ==
  IF content = <<>> THEN [ok |-> FALSE, config |-> createDefaultConfig]
  ELSE [ok |-> validateWorkspaceConfig(content[1]), config |-> content[1]]

--------------------------------------------------------------------------
(* workspaceInit                                                           *)

IdleRunAndNames == IdleRun /\ IdleNames

InitWorkspaceInit ==
  /\ IdleRunAndNames
  /\ IdleModules
  /\ wsConfig \in {<<>>} \cup {<<c>> : c \in WorkspaceConfigs}
  /\ wsDir \in BOOLEAN
  /\ workspaceConfigExists(wsConfig) => wsDir
  /\ wsStart = wsConfig
  /\ ipc = "start"
  /\ wsReported = <<>>

\* ui.info / ui.success / ui.error, and the return that follows
report(message) ==
  /\ wsReported' = Append(wsReported, message)
  /\ ipc' = "end"

\* lines 333-337 and 403-409 of WORKSPACE.md
InitStart ==
  /\ ipc = "start"
  /\ IF workspaceConfigExists(wsConfig)
     THEN ipc' = "promptAction" /\ UNCHANGED <<wsDir, wsConfig, wsReported>>
     ELSE \E r \in {initWorkspaceConfig(wsDir, wsConfig)} :
            /\ wsDir' = r.dir
            /\ wsConfig' = r.file
            /\ report("Workspace config created")
  /\ UNCHANGED <<runVars, nameVars, modVars, wsStart>>

\* lines 339-354 and 397-402: the answer to the first prompt
ChooseAction ==
  /\ ipc = "promptAction"
  /\ \E action \in {"use", "new", "import", "cancel"} :
       IF action = "cancel" THEN report("Operation cancelled")
       ELSE IF action = "new" THEN ipc' = "promptConfirm" /\ UNCHANGED wsReported
       ELSE IF action = "import" THEN ipc' = "promptPath" /\ UNCHANGED wsReported
       ELSE report("Using existing workspace config")
  /\ UNCHANGED <<runVars, nameVars, modVars, wsDir, wsConfig, wsStart>>

\* lines 356-374: the answer to the confirmation, then initWorkspaceConfig
ConfirmNew ==
  /\ ipc = "promptConfirm"
  /\ \E confirm \in BOOLEAN :
       IF ~confirm
       THEN report("Operation cancelled") /\ UNCHANGED <<wsDir, wsConfig>>
       ELSE \E r \in {initWorkspaceConfig(wsDir, wsConfig)} :
              /\ wsDir' = r.dir
              /\ wsConfig' = r.file
              /\ report("New workspace config created")
  /\ UNCHANGED <<runVars, nameVars, modVars, wsStart>>

\* lines 375-396: the file at the path the user entered exists
ImportFrom ==
  /\ ipc = "promptPath"
  /\ \E content \in {<<>>} \cup {<<c>> : c \in WorkspaceConfigs} :
       \E r \in {importWorkspaceConfig(content)} :
         IF r.ok
         THEN \E w \in {writeWorkspaceConfig(wsDir, wsConfig, r.config)} :
                /\ wsDir' = w.dir
                /\ wsConfig' = w.file
                /\ report("Workspace config imported successfully")
         ELSE report("Failed to import config") /\ UNCHANGED <<wsDir, wsConfig>>
  /\ UNCHANGED <<runVars, nameVars, modVars, wsStart>>

NextWorkspaceInit ==
  \/ InitStart
  \/ ChooseAction
  \/ ConfirmNew
  \/ ImportFrom

SpecWorkspaceInit == InitWorkspaceInit /\ [][NextWorkspaceInit]_vars

--------------------------------------------------------------------------
(* processModules and executeAction                                        *)

MaxModules == 2

InitModules ==
  /\ IdleRunAndNames
  /\ IdleInit
  /\ modules \in ListsUpTo({ModuleUniverse[i] : i \in 1..Len(ModuleUniverse)}, MaxModules)
  /\ mi = 1
  /\ ai = 1
  /\ mpc = "module"
  /\ children = {}
  /\ events = <<>>

\* console.log of what happened to action a of module m
logged(what, m, a) == events' = Append(events, [e |-> what, m |-> m, a |-> a])

\* the field an action of this type cannot run without
needsField(action) == action.type \in {"run-command", "run-script", "open-url"}

knownType(action) ==
  action.type \in {"open-in-vscode", "run-command", "run-script", "open-url", "open-folder"}

\* `continue` at line 558 and the end of the inner loop: the next module
skipModule(what) ==
  /\ logged(what, mi, 0)
  /\ mi' = mi + 1
  /\ UNCHANGED <<ai, mpc>>

\* the child process is started and not waited for
afterSpawnDetached == "delay"

\* where processModules is once execAsync has started the child process:
\* executeAction awaits its exit
afterSpawn == "awaiting"

\* lines 552-560: the head of the loop over modules
NextModule ==
  /\ mpc = "module"
  /\ IF mi > Len(modules)
     THEN mpc' = "end" /\ UNCHANGED <<mi, ai, events>>
     ELSE IF modules[mi].path \notin ExistingDirs
     THEN skipModule("pathNotFound")
     ELSE mpc' = "action" /\ ai' = 1 /\ UNCHANGED <<mi, events>>
  /\ UNCHANGED <<runVars, nameVars, initVars, modules, children>>

\* line 562-563 and executeAction up to its await: lines 435-541
NextAction ==
  /\ mpc = "action"
  /\ IF ai > Len(modules[mi].actions)
     THEN mpc' = "module" /\ mi' = mi + 1 /\ UNCHANGED <<ai, events, children>>
     ELSE \E action \in {modules[mi].actions[ai]} :
            /\ UNCHANGED <<mi, ai>>
            /\ IF ~knownType(action)
               THEN logged("unknownType", mi, ai) /\ mpc' = "delay" /\ UNCHANGED children
               ELSE IF needsField(action) /\ action.arg = ""
               THEN logged("notSpecified", mi, ai) /\ mpc' = "delay" /\ UNCHANGED children
               ELSE /\ logged("started", mi, ai)
                    /\ children' = children \cup {<<mi, ai>>}
                    /\ mpc' = afterSpawn
  /\ UNCHANGED <<runVars, nameVars, initVars, modules>>

\* a child process exits, with status 0 or with an error
ChildExits ==
  /\ \E c \in children :
       /\ children' = children \ {c}
       /\ \E status \in {"exited", "exitedWithError"} : logged(status, c[1], c[2])
  /\ UNCHANGED <<runVars, nameVars, initVars, modules, mi, ai, mpc>>

\* the await of execAsync returns or throws; the catch block only logs
Resume ==
  /\ mpc = "awaiting"
  /\ <<mi, ai>> \notin children
  /\ mpc' = "delay"
  /\ UNCHANGED <<runVars, nameVars, initVars, modules, mi, ai, children, events>>

\* line 565: the timer of 500 ms fires
Delay ==
  /\ mpc = "delay"
  /\ ai' = ai + 1
  /\ mpc' = "action"
  /\ UNCHANGED <<runVars, nameVars, initVars, modules, mi, children, events>>

NextModules ==
  \/ NextModule
  \/ NextAction
  \/ ChildExits
  \/ Resume
  \/ Delay

SpecModules == InitModules /\ [][NextModules]_vars

--------------------------------------------------------------------------
(* Properties                                                              *)

\* the run has a secondary root: lines 225-242
hasPublicRoot == cfg.projectType = "nextjs" /\ cfg.publicDir /\ cfg.pubExists

\* the root-relative paths of the image files of a root
assetPaths(files) == {f.p : f \in {g \in files : IsAsset(g.p)}}

\* the path with the extension stripped from its final segment
RelativeKeyPath(p) == join(dirname(p), baseNoExtOf(p))

keyPathsOf(files) == {RelativeKeyPath(p) : p \in assetPaths(files)}

\* the path renameImagesInDirectory computes for filePath: lines 143-149
targetOf(filePath, nameCase) ==
  join(dirname(filePath), convertImageName(basename(filePath), nameCase))

EndsWith(str, suffix) ==
  Len(str) >= Len(suffix) /\ SubSeq(str, Len(str) - Len(suffix) + 1, Len(str)) = suffix

elementsOf(seq) == {seq[i] : i \in 1..Len(seq)}

\* the identifier given to each asset
bindingsOf(a) == {[root |-> d.root, path |-> d.path, var |-> d.var] : d \in elementsOf(a.decls)}

\* ascending RelativeKeyPath, ties broken by the full path
KeyPathLess(p, q) ==
  \/ StrLess(RelativeKeyPath(p), RelativeKeyPath(q))
  \/ RelativeKeyPath(p) = RelativeKeyPath(q) /\ StrLess(p, q)

sortedByKeyPath(list) ==
  CHOOSE l \in Perms(elementsOf(list)) : \A i, j \in 1..Len(l) : i < j => KeyPathLess(l[i], l[j])

\* C1: for every file name and every naming convention, normalizing the
\* result of convertImageName again gives that result: the conversion is
\* idempotent, also for names whose base name normalizes to the empty string.
C1_Idempotent == npc = "twice" => nTwice = nOnce

\* C2: within one generation run ensureUnique never returns an identifier it
\* has already returned: no two assets of the two roots receive the same
\* binding identifier, and every identifier returned is recorded as used.
C2_UniqueIdentifiers ==
  /\ \A i, j \in 1..Len(acc.decls) : acc.decls[i].var = acc.decls[j].var => i = j
  /\ {d.var : d \in elementsOf(acc.decls)} = acc.used

\* a finished run where two candidates were equal and a third candidate was
\* equal to the suffixed identifier the second one received (a, a, a2)
C2_SuffixedCandidates ==
  /\ pc = "done"
  /\ \E i, j, k \in 1..Len(acc.decls) :
       /\ i < j /\ j < k
       /\ candidateOf(acc.decls[i].path) = candidateOf(acc.decls[j].path)
       /\ candidateOf(acc.decls[k].path) = acc.decls[j].var
       /\ acc.decls[j].var # candidateOf(acc.decls[j].path)
       /\ acc.decls[k].var # candidateOf(acc.decls[k].path)

\* C3: in a run with a secondary root, when after renaming some root-relative
\* image path is present in both roots, the run does not get past duplicate
\* detection: it fails, reports exactly the overlapping paths, and index.ts is
\* not written.
C3_OverlapFails ==
  hasPublicRoot =>
    /\ pc \in {"processing", "written", "done"} => assetPaths(base) \cap assetPaths(pub) = {}
    /\ (pc = "failed" /\ errKind = "duplicate") =>
         /\ elementsOf(reported) = assetPaths(base) \cap assetPaths(pub)
         /\ reported # <<>>
         /\ ~written.done
         /\ out = start.out

\* a run that renamed a file and then failed on the overlap the rename made
C3_OverlapAfterRename ==
  /\ pc = "failed" /\ errKind = "duplicate"
  /\ \E r \in renamed : r.to \in elementsOf(reported)

\* C4: when two distinct files of one directory normalize to the same target
\* name, also when their names differ only in letter case (icon.png and
\* Icon.png with kebab-case), the rename phase raises the collision error:
\* the run never gets past the renaming of that root.
C4_SameTargetCollides ==
  (/\ cfg.nameCase # "any"
   /\ \E p, q \in assetPaths(start.base) :
        p # q /\ targetOf(p, cfg.nameCase) = targetOf(q, cfg.nameCase))
    => pc \notin {"scanned", "processing", "written", "done"}

\* C5: two consecutive full runs over the same files and configuration, with
\* no external change in between, write byte-identical text to index.ts.
C5_SameTextTwice ==
  (prev.ran /\ prev.written.done /\ written.done) => written.text = prev.written.text

\* C6: a run that ends with a name-collision error, a missing required root
\* or a duplicate-overlap error has not written index.ts, whose earlier
\* content is unchanged, and every rename completed in the run is still in
\* place: the destination exists and the source path is gone.
C6_FailureKeepsRenames ==
  (pc = "failed" /\ errKind \in {"collision", "noroot", "duplicate"}) =>
    /\ ~written.done
    /\ out = start.out
    /\ \A r \in renamed :
         /\ existsSync(IF r.root = "public" THEN pub ELSE base, r.to)
         /\ ~existsSync(IF r.root = "public" THEN pub ELSE base, r.from)

\* a run that completed a rename and then ended with a name collision
C6_CollisionAfterRename ==
  pc = "failed" /\ errKind = "collision" /\ renamed # {} /\ out = StaleIndex

\* C7: whenever index.ts is written, the RelativeKeyPaths of the primary root
\* and those of the secondary root are disjoint; logo.png in one root and
\* logo.jpg in the other count as an overlap.
C7_KeyPathsDisjoint ==
  (written.done /\ hasPublicRoot) => keyPathsOf(base) \cap keyPathsOf(pub) = {}

\* C8: in the rename map of one renameImagesInDirectory call no two entries
\* have the same destination path.
C8_DistinctDestinations ==
  \A e, f \in renameMap : e.to = f.to => e = f

\* C9: binding identifiers are allocated in ascending order of the assets'
\* RelativeKeyPaths, so each asset receives the identifier it would receive
\* for any order of the directory listing.
C9_SortedAllocation ==
  written.done =>
    bindingsOf(acc) = bindingsOf(processImages(cfg, sortedByKeyPath(baseFiles),
                                               sortedByKeyPath(publicFiles), pub))

\* the rename r of a file named fileName with the extension ext left the
\* directory and the extension as they were and converted the rest of the name
keepsExtension(r, fileName, ext, nameCase) ==
  /\ ext # ""
  /\ EndsWith(r.to, ext)
  /\ dirname(r.to) = dirname(r.from)
  /\ basename(r.to) =
       (IF nameCase = "kebab-case"
        THEN toKebabCase(stripExt(fileName, ext))
        ELSE toSnakeCase(stripExt(fileName, ext))) \o ext

\* C10: a rename changes only the base name: the new name is the converted
\* base name followed by the original extension, character for character; and
\* in a run over My Photo.PNG with kebab-case the file becomes my-photo.PNG and
\* the manifest binds the key myPhoto to one identifier, declared by an import
\* of "./my-photo.PNG" (for react-native-cli, to the require of that path).
C10_ExtensionKept ==
  /\ \A r \in renamed : keepsExtension(r, basename(r.from), extname(r.from), cfg.nameCase)
  /\ (/\ written.done
      /\ cfg.nameCase = "kebab-case"
      /\ existsSync(start.base, "My Photo.PNG")) =>
        /\ "my-photo.PNG" \in assetPaths(base)
        /\ "My Photo.PNG" \notin assetPaths(base)
        /\ HasKey(acc.tree, "myPhoto")
        /\ IF cfg.projectType = "react-native-cli"
           THEN Get(acc.tree, "myPhoto") = Leaf("require(\"./my-photo.PNG\")")
           ELSE \E d \in elementsOf(acc.decls) :
                  /\ d.path = "my-photo.PNG" /\ d.root = "base" /\ d.keys = <<"myPhoto">>
                  /\ Get(acc.tree, "myPhoto") = Leaf(d.var)
                  /\ \A e \in elementsOf(acc.decls) : e.keys = d.keys => e = d
                  /\ ("import " \o d.var \o " from \"./my-photo.PNG\";")
                        \in elementsOf(written.text)
                  /\ ("  myPhoto: " \o d.var) \in elementsOf(written.text)
                       \/ ("  myPhoto: " \o d.var \o ",") \in elementsOf(written.text)

\* a finished run that renamed My Photo.PNG to my-photo.PNG and bound it
C10_MyPhotoRenamed ==
  /\ pc = "done"
  /\ cfg.projectType # "react-native-cli"
  /\ \E r \in renamed : r.from = "My Photo.PNG" /\ r.to = "my-photo.PNG"
  /\ \E d \in elementsOf(acc.decls) : d.path = "my-photo.PNG" /\ d.keys = <<"myPhoto">>

\* walk() lists no file of the root
noAssets(files) == \A f \in files : ~IsAsset(f.p)

\* the text of an index.ts that exports an empty structure: lines 383-402
\* with no import and objectToTS({}) = "{\n\n}"
emptyIndexOf(config) ==
  IF config.projectType = "react-native-cli"
  THEN <<"/* AUTO-GENERATED FILE. DO NOT EDIT.", "   * Run: dk gen", "   */",
         "export const ImageAssets = {", "", "};", "">>
  ELSE <<"/* AUTO-GENERATED FILE. DO NOT EDIT.", "   * Run: dk gen", "   */",
         "", "", "export const ImageAssets = {", "", "} as const;", "">>

C12_SecondRunRenamesNothing ==
  prev.ok =>
    /\ renamed = {} /\ renameMap = {}
    /\ errKind # "collision"
    /\ pc # "idle" => (base = start.base /\ pub = start.pub)

\* a second run that finished over files the first run had renamed, in both
\* roots
C12_RenamedThenRerun ==
  /\ prev.ok /\ pc = "done" /\ cfg.nameCase # "any"
  /\ \E f \in base : f.p # BaseUniverse[f.id]
  /\ \E f \in pub : f.p # PubUniverse[f.id - Len(BaseUniverse)]

\* C13: when the primary image root does not exist, the run fails at the
\* check of the root, before the first renameImagesInDirectory call and before
\* fs.writeFile: no file of either root is renamed or listed, index.ts is not
\* written, and both roots are as they were when the run began.
C13_MissingRootChangesNothing ==
  (~cfg.baseExists /\ pc # "idle") =>
    /\ pc = "failed" /\ errKind = "noroot"
    /\ renamed = {} /\ renameMap = {} /\ todo = <<>>
    /\ publicFiles = <<>> /\ baseFiles = <<>>
    /\ ~written.done
    /\ base = start.base /\ pub = start.pub /\ out = start.out /\ out = NoFile

\* a failed run without a primary root, whose secondary root holds a file the
\* naming convention would rename
C13_MissingRootWithPublicFiles ==
  /\ pc = "failed" /\ errKind = "noroot"
  /\ hasPublicRoot /\ cfg.nameCase # "any"
  /\ \E p \in assetPaths(pub) : targetOf(p, cfg.nameCase) # p

\* C14: generateImageIndex never terminates the host process itself: whatever
\* failure ends a run (a missing root, a duplicate overlap, an error raised
\* while renaming, reading or writing), process.exit has not been called and
\* the caller is left to decide.
C14_NeverExitsProcess == ~exited

\* C15: in static-descriptor mode every record emitted for a file of the
\* public root carries the width and the height sizeOf read from that file:
\* both were read, and the record's lines hold exactly those numbers, never a
\* value put in their place.
C15_DimensionsFromFile ==
  written.done =>
    \A i \in 1..Len(acc.decls) :
      acc.decls[i].root = "public" =>
        \E f \in pub :
          /\ f.p = acc.decls[i].path
          /\ Dimensions(f.id).width # <<>>
          /\ Dimensions(f.id).height # <<>>
          /\ acc.imports[i][3] = "  width: " \o numToString(Dimensions(f.id).width[1]) \o ","
          /\ acc.imports[i][4] = "  height: " \o numToString(Dimensions(f.id).height[1]) \o ","

\* C16: with the naming convention "any", renameImagesInDirectory returns at
\* once with an empty map: its loop visits no file, no file is renamed, and
\* throughout the run both roots hold the files they held when it began, so
\* that index.ts is the only thing a complete run changes.
C16_AnyRenamesNothing ==
  cfg.nameCase = "any" =>
    /\ renameMap = {} /\ renamed = {} /\ todo = <<>>
    /\ base = start.base /\ pub = start.pub
    /\ errKind # "collision"

\* a finished run with the convention "any" over a primary root that holds a
\* file the other conventions would rename; index.ts was rewritten
C16_AnyRunDone ==
  /\ pc = "done" /\ cfg.nameCase = "any"
  /\ \E p \in assetPaths(base) : targetOf(p, "kebab-case") # p
  /\ out # start.out /\ out.text = written.text

\* the files the two loops of lines 298-375 visit, in that order
processedFiles == baseFiles \o publicFiles

\* keys is a proper prefix of longer
IsProperPrefix(keys, longer) ==
  Len(keys) < Len(longer) /\ SubSeq(longer, 1, Len(keys)) = keys

RECURSIVE leafAt(_, _)

\* the node reached from the object props along keys is a leaf
leafAt(props, keys) ==
  /\ keys # <<>>
  /\ HasKey(props, Head(keys))
  /\ IF Len(keys) = 1
     THEN Get(props, Head(keys)).leaf
     ELSE /\ ~Get(props, Head(keys)).leaf
          /\ leafAt(Get(props, Head(keys)).kids, Tail(keys))

RECURSIVE leafValues(_)

\* the leaf values of a tree, in the order objectToTS emits them
leafValues(props) ==
  IF props = <<>> THEN <<>>
  ELSE (IF Head(props).v.leaf THEN <<Head(props).v.s>> ELSE leafValues(Head(props).v.kids))
         \o leafValues(Tail(props))

\* the loops of lines 298-375 have run
loopsRan == pc \in {"written", "done"} \/ acc # EmptyAcc

\* C19: when the key path of a file is the key path of a directory that holds
\* another file (logo.png beside logo/icon.png), the tree is built without
\* error whichever of the two files is visited first, and the file visited
\* last is in the tree.
C19_SameKeyLastWins ==
  loopsRan =>
    \A i, j \in 1..Len(processedFiles) :
      (/\ i < j
       /\ \/ IsProperPrefix(keysPathOf(processedFiles[i]), keysPathOf(processedFiles[j]))
          \/ IsProperPrefix(keysPathOf(processedFiles[j]), keysPathOf(processedFiles[i])))
        => /\ acc.ok
           /\ pc # "failed" \/ written.done
           /\ j = Len(processedFiles) => leafAt(acc.tree, keysPathOf(processedFiles[j]))

\* C20: after a successful run every listed asset is in the tree: the tree
\* has as many leaves as files were processed, and every binding declaration
\* is the value of exactly one leaf, also when two files of one directory have
\* the same key (logo.png and logo.jpg).
C20_EveryAssetReachable ==
  pc = "done" =>
    /\ Len(leafValues(acc.tree)) = Len(processedFiles)
    /\ \A d \in elementsOf(acc.decls) :
         Cardinality({i \in 1..Len(leafValues(acc.tree)) : leafValues(acc.tree)[i] = d.var}) = 1

\* C17: when workspaceInit finds a configuration file, the user chooses
\* "Create new config (overwrites existing)" and confirms, the file holds the
\* default configuration (version 1.0.0, no workspaces) when "New workspace
\* config created" is reported.
C17_NewConfigReplacesExisting ==
  (\E i \in 1..Len(wsReported) : wsReported[i] = "New workspace config created") =>
    wsConfig = <<createDefaultConfig>>

\* the actions executeAction was called for, in the order of the calls
calls == SelectSeq(events, LAMBDA ev : ev.e \in {"started", "notSpecified", "unknownType"})

RECURSIVE configuredFrom(_, _)

\* the actions of the modules m, m + 1, ... whose path exists, in the order of
\* the configuration
configuredFrom(mods, m) ==
  IF m > Len(mods) THEN <<>>
  ELSE (IF mods[m].path \in ExistingDirs
        THEN [a \in 1..Len(mods[m].actions) |-> <<m, a>>]
        ELSE <<>>) \o configuredFrom(mods, m + 1)

\* C18: processModules runs the actions one at a time and in the order of the
\* configuration: the actions executed so far are an initial part of the
\* actions of the modules in list order (modules whose path is missing left
\* out), at most one child process is alive and it belongs to the action the
\* loop is at, and between the start of an action and the next call of
\* executeAction the started command has exited.
C18_ActionsInOrder ==
  /\ Len(calls) <= Len(configuredFrom(modules, 1))
  /\ \A i \in 1..Len(calls) : <<calls[i].m, calls[i].a>> = configuredFrom(modules, 1)[i]
  /\ children \subseteq {<<mi, ai>>}
  /\ children # {} => mpc = "awaiting"
  /\ \A i, j \in 1..Len(events) :
       (/\ i < j
        /\ events[i].e = "started"
        /\ events[j].e \in {"started", "notSpecified", "unknownType", "pathNotFound"})
         => \E k \in (i + 1)..(j - 1) :
              /\ events[k].e \in {"exited", "exitedWithError"}
              /\ events[k].m = events[i].m /\ events[k].a = events[i].a
  /\ mpc = "end" => (children = {} /\ Len(calls) = Len(configuredFrom(modules, 1)))

\* processModules has finished two modules with two and three actions; one
\* command failed and one action had no command
C18_TwoModulesDone ==
  /\ mpc = "end"
  /\ Len(modules) = 2
  /\ Len(calls) = 5
  /\ \E i \in 1..Len(events) : events[i].e = "exitedWithError"
  /\ \E i \in 1..Len(events) : events[i].e = "notSpecified"

\* the first renameImagesInDirectory call of a run with a secondary root, the
\* one on the public root, has returned
publicRenameReturned ==
  hasPublicRoot /\ pc \in {"renameBase", "scanned", "processing", "written", "done"}

\* the renameImagesInDirectory call on the primary root has returned
baseRenameReturned == pc \in {"scanned", "processing", "written", "done"}

\* C21: renameImagesInDirectory never loses an asset: once a call has
\* returned, walk lists as many eligible files of that root as it listed
\* before the call; no file was overwritten by a rename and no file was renamed
\* to a name walk does not accept.
C21_NoAssetLost ==
  /\ publicRenameReturned => Cardinality(assetPaths(pub)) = Cardinality(assetPaths(start.pub))
  /\ baseRenameReturned => Cardinality(assetPaths(base)) = Cardinality(assetPaths(start.base))

--------------------------------------------------------------------------
(* Runs over roots whose files normalize to each other's names            *)

MaxRenameBase == 3

MaxRenamePub == 3

\* the files the primary root of such a run is drawn from
RenameBaseUniverse == <<"my-logo.png", "My Logo.png", "Icon.png", "icon.png">>

\* the files the secondary root of such a run is drawn from
RenamePubUniverse == <<"my-logo.png", "My Logo.png", "Icon.png">>

\* both roots exist when the project type reads the secondary root
RenameConfigs ==
  {c \in Configs : c.baseExists /\ c.pubExists = (c.projectType = "nextjs")}

InitRename ==
  /\ cfg \in RenameConfigs
  /\ \E I \in SUBSET (1..Len(RenameBaseUniverse)) :
       /\ Cardinality(I) <= MaxRenameBase
       /\ base = {[p |-> RenameBaseUniverse[i], id |-> 100 + i] : i \in I}
  /\ \E I \in SUBSET (1..Len(RenamePubUniverse)) :
       /\ Cardinality(I) <= MaxRenamePub
       /\ cfg.pubExists \/ I = {}
       /\ pub = {[p |-> RenamePubUniverse[i], id |-> 200 + i] : i \in I}
  /\ out = StaleIndex
  /\ pc = "idle"
  /\ run = 1
  /\ todo = <<>>
  /\ renameMap = {}
  /\ renamed = {}
  /\ publicFiles = <<>>
  /\ baseFiles = <<>>
  /\ errKind = "none"
  /\ exited = FALSE
  /\ reported = <<>>
  /\ acc = EmptyAcc
  /\ written = NotWritten
  /\ start = [base |-> base, pub |-> pub, out |-> out]
  /\ prev = NoPrev
  /\ IdleNames
  /\ IdleWs

SpecRename == InitRename /\ [][Next]_vars

\* the files of the root a completed rename was made in
rootOf(r) == IF r.root = "public" THEN pub ELSE base

\* the run stopped at a collision raised by the call on the public root: the
\* file the loop was at is a file of that root whose target exists there
raisedInPublic ==
  /\ hasPublicRoot
  /\ todo # <<>>
  /\ existsSync(pub, Head(todo))
  /\ renameOne(pub, Head(todo), cfg.nameCase).kind = "collision"

\* the root whose renameImagesInDirectory call raised the collision
raisedRoot == IF raisedInPublic THEN "public" ELSE "base"

\* C22: when renameImagesInDirectory raises the collision error at a file,
\* that file and the files later in the listing of that root are not renamed,
\* the files renamed earlier in the run are at their new names with their
\* content and their old names are gone; and when the error is raised in the
\* secondary root, no file of the primary root has been renamed.
C22_CollisionStopsRenames ==
  (pc = "failed" /\ errKind = "collision") =>
    /\ todo # <<>>
    /\ \A i \in 1..Len(todo) :
         /\ existsSync(IF raisedInPublic THEN pub ELSE base, todo[i])
         /\ \A r \in renamed : r.root = raisedRoot => r.from # todo[i]
    /\ \A r \in renamed :
         /\ existsSync(rootOf(r), r.to)
         /\ FileAt(rootOf(r), r.to).id = r.id
         /\ ~existsSync(rootOf(r), r.from)
    /\ raisedInPublic => (base = start.base /\ \A r \in renamed : r.root = "public")

\* the collision was raised at the second of three files of the secondary
\* root: the first is renamed, the third still has the name the convention
\* would change, and so has a file of the primary root
C22_CollisionInPublic ==
  /\ pc = "failed" /\ errKind = "collision"
  /\ raisedInPublic
  /\ Len(todo) = 2
  /\ \E r \in renamed : r.root = "public"
  /\ targetOf(todo[2], cfg.nameCase) # todo[2]
  /\ \E p \in assetPaths(base) : targetOf(p, cfg.nameCase) # p

\* list is a listing of the eligible files the root holds now
isListingOf(list, files) ==
  /\ elementsOf(list) = assetPaths(files)
  /\ Len(list) = Cardinality(assetPaths(files))


\* C23: duplicate detection compares the listings of the two roots as they
\* are after the renames: when it runs, each listing holds exactly the eligible
\* files of its root under their new names, the names it reports are exactly
\* those present in both roots, and the loops that build the tree and the
\* declarations run only when there is none.  With My Logo.png in the primary
\* root, my-logo.png in the secondary root and kebab-case, the run never
\* reaches those loops, and when detection runs it reports my-logo.png.
C23_OverlapAfterNormalization ==
  /\ pc \in {"scanned", "processing", "written", "done"} =>
       /\ isListingOf(baseFiles, base)
       /\ hasPublicRoot => isListingOf(publicFiles, pub)
  /\ (pc = "failed" /\ errKind = "duplicate") =>
       /\ isListingOf(baseFiles, base)
       /\ isListingOf(publicFiles, pub)
       /\ elementsOf(reported) = assetPaths(base) \cap assetPaths(pub)
       /\ reported # <<>>
       /\ acc = EmptyAcc /\ ~written.done
  /\ (pc \in {"processing", "written", "done"} \/ acc # EmptyAcc) =>
       elementsOf(baseFiles) \cap elementsOf(publicFiles) = {}
  /\ (/\ hasPublicRoot /\ cfg.nameCase = "kebab-case"
      /\ existsSync(start.base, "My Logo.png")
      /\ existsSync(start.pub, "my-logo.png")) =>
       /\ pc \notin {"processing", "written", "done"}
       /\ acc = EmptyAcc
       /\ pc = "scanned" =>
            /\ "my-logo.png" \in elementsOf(baseFiles)
            /\ "my-logo.png" \in elementsOf(publicFiles)
       /\ pc = "failed" => errKind \in {"collision", "duplicate", "error"}
       /\ (pc = "failed" /\ errKind = "duplicate") => "my-logo.png" \in elementsOf(reported)

\* My Logo.png of the primary root was renamed to my-logo.png, the name of a
\* file of the secondary root, and the run failed reporting that name
C23_RenamedIntoOverlap ==
  /\ pc = "failed" /\ errKind = "duplicate"
  /\ existsSync(start.base, "My Logo.png") /\ ~existsSync(start.base, "my-logo.png")
  /\ existsSync(start.pub, "my-logo.png")
  /\ \E r \in renamed : r.root = "base" /\ r.from = "My Logo.png" /\ r.to = "my-logo.png"
  /\ reported = <<"my-logo.png">>

\* C24: the manifest is built from the listings taken after the renames: when
\* index.ts is written, every binding declaration names a file its root holds
\* under exactly that path (the import of "./<path>" for the primary root, the
\* src "/images/<path>" for the secondary root), every leaf of the tree is one
\* of these bindings, or for react-native-cli the require of such a path, and
\* no file a rename has moved away is referenced.
C24_ManifestPathsExist ==
  written.done =>
    /\ \A i \in 1..Len(acc.decls) :
         /\ existsSync(IF acc.decls[i].root = "public" THEN pub ELSE base, acc.decls[i].path)
         /\ \A r \in renamed : r.root = acc.decls[i].root => r.from # acc.decls[i].path
         /\ IF acc.decls[i].root = "base"
            THEN acc.imports[i] =
                   <<"import " \o acc.decls[i].var \o " from \"./" \o acc.decls[i].path \o "\";">>
            ELSE acc.imports[i][2] = "  src: \"/images/" \o acc.decls[i].path \o "\","
    /\ \A i \in 1..Len(leafValues(acc.tree)) :
         IF cfg.projectType = "react-native-cli"
         THEN \E f \in base : leafValues(acc.tree)[i] = "require(\"./" \o f.p \o "\")"
         ELSE \E d \in elementsOf(acc.decls) : leafValues(acc.tree)[i] = d.var

\* index.ts has been written in a run that renamed a file in each root, and
\* the declarations name the new paths
C24_WrittenAfterRenames ==
  /\ pc = "written"
  /\ \E r \in renamed, d \in elementsOf(acc.decls) :
       r.root = "base" /\ d.root = "base" /\ d.path = r.to
  /\ \E r \in renamed, d \in elementsOf(acc.decls) :
       r.root = "public" /\ d.root = "public" /\ d.path = r.to

--------------------------------------------------------------------------
(* Runs over files whose names give unusual keys and identifiers          *)

MaxKeyBase == 2

MaxKeyPub == 1

\* the files the primary root of such a run is drawn from
KeyBaseUniverse ==
  <<"default.png", "class.png", "10.png", "2.png", "___.png", "---.png", "sub/Pic.JPG",
    "notes.txt">>

\* the files the secondary root of such a run is drawn from
KeyPubUniverse == <<"1.png", "new.PNG">>

InitKeys ==
  /\ cfg \in RenameConfigs
  /\ \E I \in SUBSET (1..Len(KeyBaseUniverse)) :
       /\ Cardinality(I) <= MaxKeyBase
       /\ base = {[p |-> KeyBaseUniverse[i], id |-> 300 + i] : i \in I}
  /\ \E I \in SUBSET (1..Len(KeyPubUniverse)) :
       /\ Cardinality(I) <= MaxKeyPub
       /\ cfg.pubExists \/ I = {}
       /\ pub = {[p |-> KeyPubUniverse[i], id |-> 400 + i] : i \in I}
  /\ out = StaleIndex
  /\ pc = "idle"
  /\ run = 1
  /\ todo = <<>>
  /\ renameMap = {}
  /\ renamed = {}
  /\ publicFiles = <<>>
  /\ baseFiles = <<>>
  /\ errKind = "none"
  /\ exited = FALSE
  /\ reported = <<>>
  /\ acc = EmptyAcc
  /\ written = NotWritten
  /\ start = [base |-> base, pub |-> pub, out |-> out]
  /\ prev = NoPrev
  /\ IdleNames
  /\ IdleWs

SpecKeys == InitKeys /\ [][Next]_vars

\* the reserved words of the language of index.ts, an ECMAScript module in
\* strict mode: none of them can be the name of an import or of a const
ReservedWords ==
  {"await", "break", "case", "catch", "class", "const", "continue", "debugger", "default",
   "delete", "do", "else", "enum", "export", "extends", "false", "finally", "for",
   "function", "if", "implements", "import", "in", "instanceof", "interface", "let", "new",
   "null", "package", "private", "protected", "public", "return", "static", "super",
   "switch", "this", "throw", "true", "try", "typeof", "var", "void", "while", "with",
   "yield"}

\* C25: every binding identifier allocated is a valid identifier of the
\* generated module: it starts with a letter or an underscore, holds only
\* letters, digits and underscores, and is not a reserved word, for every asset
\* name including default.png and class.png.
C25_ValidIdentifiers ==
  \A d \in elementsOf(acc.decls) : IsIdentifier(d.var) /\ d.var \notin ReservedWords

\* every directory segment and the base name of the path camelCase to ""
camelEmpty(relFromImages) ==
  camelParts(Append(dirPartsOf(relFromImages), baseNoExtOf(relFromImages))) = <<>>

\* C26: when the candidate base is empty after camel-casing, the identifier
\* allocated is the default token img, or img followed by a number from 2 on
\* when img is already used.
C26_EmptyBaseIsImg ==
  \A d \in elementsOf(acc.decls) :
    camelEmpty(d.path) =>
      d.var \in {"img"} \cup {"img" \o numToString(n) : n \in 2..(Len(acc.decls) + 1)}

RECURSIVE keysAscending(_)

\* objectToTS emits the keys of v, and of every object below v, in ascending
\* string order: the entries of lines 120-123 follow Object.entries
keysAscending(v) ==
  \/ v.leaf
  \/ /\ \A i \in 1..(Len(v.kids) - 1) :
          StrLess(ObjectKeys(v.kids)[i], ObjectKeys(v.kids)[i + 1])
     /\ \A i \in 1..Len(v.kids) : keysAscending(v.kids[i].v)

\* C27: in the emitted tree literal the keys of every mapping, at every
\* nesting level, appear in ascending lexicographic (string) order, also when
\* keys are made only of digits (1, 10, 2).
C27_KeysAscending ==
  written.done => keysAscending(sortObjectKeysDeep(Obj(acc.tree)))

\* the base name of the path ends, whatever the case of its letters, with an
\* extension of the allow-list, and has a character before it
hasImageExtension(p) ==
  \E e \in IMAGE_EXTS :
    Len(basename(p)) > Len(e) /\ EndsWith(toLowerCase(basename(p)), e)

\* list holds, once each, the paths of the files with an image extension
listsImagesOf(list, files) ==
  /\ elementsOf(list) = {f.p : f \in {g \in files : hasImageExtension(g.p)}}
  /\ \A i, j \in 1..Len(list) : list[i] = list[j] => i = j

\* C28: walk returns exactly the files, at any depth of the root, whose
\* extension is in the image allow-list when compared without regard to case,
\* each once; it never returns index.ts, which lies in the primary root from
\* the earlier generation, so the manifest is never taken for an asset.
C28_WalkListsImages ==
  /\ baseRenameReturned =>
       /\ listsImagesOf(baseFiles, base)
       /\ out.exists
       /\ \A i \in 1..Len(baseFiles) : basename(baseFiles[i]) # "index.ts"
       /\ \A d \in elementsOf(acc.decls) : basename(d.path) # "index.ts"
  /\ publicRenameReturned => listsImagesOf(publicFiles, pub)

\* a finished run over a root that holds index.ts from an earlier generation,
\* a file in a subdirectory with an upper-case extension and a file that is
\* not an image: the listing is the one image
C28_UpperCaseExtensionListed ==
  /\ pc = "done"
  /\ start.out = StaleIndex
  /\ {f.p : f \in base} = {"sub/Pic.JPG", "notes.txt"}
  /\ baseFiles = <<"sub/Pic.JPG">>

\* C29: a run that reports failure has not written index.ts: fs.writeFile is
\* the last step of a run that can fail.
C29_FailureBeforeWrite ==
  pc = "failed" => (~written.done /\ out = start.out)

\* the file f of a root at the start of the run is now in files at path p
fileIsAt(files, f, p) == \E g \in files : g.id = f.id /\ g.p = p

\* the calls of renameImagesInDirectory of the run have returned or raised
renameCallsOver == pc = "failed" \/ baseRenameReturned

\* C30: the rename through the temporary name never strands a file: after
\* renameImagesInDirectory has returned or raised, also when the second of the
\* two renames failed, no file of either root is left at its <name>.tmp path.
C30_NoFileStranded ==
  renameCallsOver =>
    /\ \A f \in start.base : ~fileIsAt(base, f, f.p \o ".tmp")
    /\ \A f \in start.pub : ~fileIsAt(pub, f, f.p \o ".tmp")

====
